---- MODULE Spec2Model ----
(***************************************************************************)
(* Model of the color accessibility checker (src/server/main.py): the      *)
(* WCAG contrast calculator, the compliance evaluator, the OKLCH           *)
(* remediation search, the batch loop of check_color_accessibility and the *)
(* JSON-RPC handler mcp_endpoint that drives it.                           *)
(*                                                                         *)
(* Number representation.  Python floats are modelled in fixed point:       *)
(* luminances are integers in units of 1/LumScale, contrast ratios are      *)
(* integers in units of 1/RatioScale (floor of the exact quotient), and a   *)
(* value rounded to two decimals (round(x, 2)) is an integer number of      *)
(* hundredths.  Strings are sequences of one-character strings.             *)
(***************************************************************************)
EXTENDS Integers, Naturals, Sequences, FiniteSets, TLC

VARIABLES
  request,        \* the JSONRPCRequest mcp_endpoint is called with
  color_pairs,    \* arguments["color_pairs"] of the tools/call request
  pc,             \* position of the handler: request, call, loop, raised,
                  \* done, escaped (an exception left the handler), pure
  results,        \* check_color_accessibility: results
  passed_count,   \* check_color_accessibility: passed_count
  failed_count,   \* check_color_accessibility: failed_count
  ratio,          \* check_color_accessibility: ratio of the last pair (unrounded)
  probes,         \* generate_oklch_suggestions: the probes computed for the last pair
  response,       \* what mcp_endpoint returned
  fn,             \* pure-function harness: the function applied
  args,           \* pure-function harness: its arguments
  ret             \* pure-function harness: what it returned

vars == <<request, color_pairs, pc, results, passed_count, failed_count, ratio, probes,
          response, fn, args, ret>>

(***************************************************************************)
(* Bounds of the model.                                                    *)
(***************************************************************************)
MaxPairs == 2        \* longest batch drawn in Init
MaxHalfRatio == 42   \* evaluate_wcag is applied to ratios up to MaxHalfRatio / 2

(***************************************************************************)
(* Fixed-point scales.                                                     *)
(***************************************************************************)
LumScale == 100000000
RatioScale == 1000000

Max(a, b) == IF a >= b THEN a ELSE b
Min(a, b) == IF a <= b THEN a ELSE b

(***************************************************************************)
(* Characters and Python's string operations.                              *)
(***************************************************************************)
HexDigitChars == <<"0", "1", "2", "3", "4", "5", "6", "7",
                   "8", "9", "a", "b", "c", "d", "e", "f">>

UpperHexChars == <<"0", "1", "2", "3", "4", "5", "6", "7",
                   "8", "9", "A", "B", "C", "D", "E", "F">>

IsHexDigit(ch) == \E k \in 1..16 : HexDigitChars[k] = ch \/ UpperHexChars[k] = ch

HexVal(ch) == (CHOOSE k \in 1..16 : HexDigitChars[k] = ch \/ UpperHexChars[k] = ch) - 1

\* str.lstrip('#'): every leading '#' is removed, not only one.
RECURSIVE LStripHash(_)
LStripHash(s) ==
  IF Len(s) > 0 /\ Head(s) = "#" THEN LStripHash(Tail(s)) ELSE s

\* s[i:j] for 0 <= i <= j: a slice past the end is shortened, never an error.
Slice(s, i, j) == SubSeq(s, i + 1, Min(j, Len(s)))

\* int(s, 16) on a slice of at most two characters.  Python accepts one or
\* two hex digits and also a sign followed by a digit; the empty string and
\* any other character raise ValueError.  (Whitespace and "_" are not in the
\* alphabet of the strings drawn here.)
IntBase16(s) ==
  IF Len(s) = 1 /\ IsHexDigit(s[1])
    THEN [ok |-> TRUE, val |-> HexVal(s[1])]
  ELSE IF Len(s) = 2 /\ IsHexDigit(s[1]) /\ IsHexDigit(s[2])
    THEN [ok |-> TRUE, val |-> 16 * HexVal(s[1]) + HexVal(s[2])]
  ELSE IF Len(s) = 2 /\ s[1] = "+" /\ IsHexDigit(s[2])
    THEN [ok |-> TRUE, val |-> HexVal(s[2])]
  ELSE IF Len(s) = 2 /\ s[1] = "-" /\ IsHexDigit(s[2])
    THEN [ok |-> TRUE, val |-> 0 - HexVal(s[2])]
  ELSE [ok |-> FALSE, val |-> 0]

(***************************************************************************)
(* Color utility functions.                                                *)
(***************************************************************************)
\* hex_to_rgb: ok = FALSE stands for the ValueError that int() raises.
hex_to_rgb(hex_color) ==
  LET h == LStripHash(hex_color)
      r == IntBase16(Slice(h, 0, 2))
      g == IntBase16(Slice(h, 2, 4))
      b == IntBase16(Slice(h, 4, 6))
  IN  IF r.ok /\ g.ok /\ b.ok
        THEN [ok |-> TRUE, rgb |-> <<r.val, g.val, b.val>>]
        ELSE [ok |-> FALSE, rgb |-> <<>>]

\* ((c/255 + 0.055) / 1.055) ** 2.4 in units of 1/LumScale, for the channel
\* values 11..255 (entry c - 10), rounded to the nearest unit.
GammaTable ==
  <<
     334654, 367651, 402472, 439144, 477695, 518152, 560539, 604883,
     651209, 699541, 749903, 802319, 856813, 913406, 972122, 1032982,
     1096009, 1161225, 1228649, 1298303, 1370208, 1444384, 1520851, 1599629,
     1680738, 1764195, 1850022, 1938236, 2028856, 2121901, 2217388, 2315337,
     2415763, 2518686, 2624122, 2732089, 2842604, 2955683, 3071344, 3189603,
     3310477, 3433981, 3560131, 3688945, 3820437, 3954624, 4091520, 4231141,
     4373503, 4518620, 4666509, 4817182, 4970657, 5126946, 5286065, 5448028,
     5612849, 5780543, 5951124, 6124605, 6301002, 6480327, 6662594, 6847817,
     7036010, 7227185, 7421357, 7618538, 7818742, 8021982, 8228271, 8437621,
     8650046, 8865559, 9084171, 9305896, 9530747, 9758735, 9989873, 10224173,
     10461648, 10702310, 10946171, 11193243, 11443537, 11697067, 11953843, 12213877,
     12477182, 12743768, 13013648, 13286832, 13563333, 13843162, 14126329, 14412847,
     14702727, 14995979, 15292615, 15592646, 15896084, 16202938, 16513219, 16826940,
     17144110, 17464740, 17788842, 18116424, 18447499, 18782077, 19120168, 19461783,
     19806932, 20155625, 20507874, 20863687, 21223076, 21586050, 21952620, 22322796,
     22696587, 23074005, 23455058, 23839757, 24228112, 24620133, 25015828, 25415209,
     25818285, 26225066, 26635560, 27049779, 27467731, 27889426, 28314874, 28744084,
     29177065, 29613827, 30054379, 30498731, 30946892, 31398871, 31854678, 32314321,
     32777810, 33245154, 33716362, 34191442, 34670406, 35153260, 35640014, 36130678,
     36625260, 37123768, 37626212, 38132601, 38642943, 39157248, 39675523, 40197778,
     40724021, 41254261, 41788507, 42326767, 42869050, 43415364, 43965717, 44520119,
     45078578, 45641102, 46207700, 46778380, 47353150, 47932018, 48514994, 49102085,
     49693300, 50288646, 50888132, 51491767, 52099557, 52711513, 53327640, 53947949,
     54572446, 55201140, 55834039, 56471151, 57112483, 57758044, 58407842, 59061884,
     59720179, 60382734, 61049557, 61720656, 62396039, 63075714, 63759687, 64447968,
     65140564, 65837482, 66538730, 67244316, 67954247, 68668531, 69387176, 70110189,
     70837578, 71569350, 72305513, 73046074, 73791041, 74540421, 75294222, 76052450,
     76815115, 77582222, 78353779, 79129794, 79910274, 80695226, 81484657, 82278575,
     83076988, 83879901, 84687323, 85499261, 86315721, 87136712, 87962240, 88792312,
     89626935, 90466117, 91309865, 92158186, 93011086, 93868573, 94730654, 95597335,
     96468625, 97344529, 98225055, 99110210, 100000000
  >>

\* The gamma correction of one channel c (0..255, or -15..-1 from a signed
\* slice): c/255 <= 0.03928 selects c/255/12.92, else the power law.
Linearize(c) ==
  IF c * 100000 <= 3928 * 255
    THEN LET x == c * LumScale
         IN  10 * (x \div 32946) + (10 * (x % 32946)) \div 32946
    ELSE GammaTable[c - 10]

\* w/10000 * x without leaving 32 bits.
Weighted(w, x) == w * (x \div 10000) + (w * (x % 10000)) \div 10000

calculate_luminance(rgb) ==
  Weighted(2126, Linearize(rgb[1])) + Weighted(7152, Linearize(rgb[2]))
    + Weighted(722, Linearize(rgb[3]))

\* k further decimal digits of r/d, r < d.
RECURSIVE Decimals(_, _, _)
Decimals(r, d, k) ==
  IF k = 0 THEN 0
  ELSE LET q == (10 * r) \div d
           tenPow == CASE k = 1 -> 1 [] k = 2 -> 10 [] k = 3 -> 100
                       [] k = 4 -> 1000 [] k = 5 -> 10000 [] k = 6 -> 100000
       IN  q * tenPow + Decimals((10 * r) % d, d, k - 1)

\* Variant of RatioOfLuminances: the two luminances are divided in argument
\* order, without max and min.
RatioInArgumentOrder(lum1, lum2) ==
  LET n == lum1 + LumScale \div 20
      d == lum2 + LumScale \div 20
  IN  (n \div d) * RatioScale + Decimals(n % d, d, 6)

\* (lighter + 0.05) / (darker + 0.05) in units of 1/RatioScale.
RatioOfLuminances(lum1, lum2) ==
  LET lighter == Max(lum1, lum2)
      darker == Min(lum1, lum2)
      n == lighter + LumScale \div 20
      d == darker + LumScale \div 20
  IN  (n \div d) * RatioScale + Decimals(n % d, d, 6)

\* calculate_contrast_ratio: ok = FALSE when hex_to_rgb raised on either color.
calculate_contrast_ratio(color1, color2) ==
  LET rgb1 == hex_to_rgb(color1)
      rgb2 == hex_to_rgb(color2)
  IN  IF rgb1.ok /\ rgb2.ok
        THEN [ok |-> TRUE,
              value |-> RatioOfLuminances(calculate_luminance(rgb1.rgb),
                                          calculate_luminance(rgb2.rgb))]
        ELSE [ok |-> FALSE, value |-> 0]

\* round(x, 2) of a ratio, in hundredths.
Round2(x) == (x + RatioScale \div 200) \div (RatioScale \div 100)

\* The WCAG thresholds 4.5, 3.0 and 7.0 in units of 1/RatioScale.
AA_NORMAL == (45 * RatioScale) \div 10
AA_LARGE == 3 * RatioScale
AAA_NORMAL == 7 * RatioScale
AAA_LARGE == (45 * RatioScale) \div 10

\* Variant of evaluate_wcag: the boundary values themselves fail.
EvaluateStrict(r) ==
  [passes_aa_normal |-> r > AA_NORMAL,
   passes_aa_large |-> r > AA_LARGE,
   passes_aaa_normal |-> r > AAA_NORMAL,
   passes_aaa_large |-> r > AAA_LARGE]

\* Variant of evaluate_wcag: the thresholds are applied to the ratio rounded
\* to two decimals.
EvaluateRounded(r) ==
  [passes_aa_normal |-> Round2(r) * (RatioScale \div 100) >= AA_NORMAL,
   passes_aa_large |-> Round2(r) * (RatioScale \div 100) >= AA_LARGE,
   passes_aaa_normal |-> Round2(r) * (RatioScale \div 100) >= AAA_NORMAL,
   passes_aaa_large |-> Round2(r) * (RatioScale \div 100) >= AAA_LARGE]

evaluate_wcag(r) ==
  [passes_aa_normal |-> r >= AA_NORMAL,
   passes_aa_large |-> r >= AA_LARGE,
   passes_aaa_normal |-> r >= AAA_NORMAL,
   passes_aaa_large |-> r >= AAA_LARGE]

(***************************************************************************)
(* The color-space converter (coloraide) as the remediation search uses    *)
(* it.  An OKLCH color is its lightness in units of 1/LightScale together  *)
(* with the sRGB color it was converted from, which stands for the chroma  *)
(* and hue that the search never changes.  Achromatic colors are converted *)
(* through the tables below, computed from the OKLab matrices and the sRGB *)
(* transfer function; the chromatic colors of the sample pairs are listed  *)
(* one by one.                                                             *)
(***************************************************************************)
LightScale == 1000000

\* Color(string): of the strings drawn here coloraide parses '#' followed
\* by exactly 6 hex digits and the short form '#' followed by 3 hex digits,
\* each digit standing for a doubled one (it also reads the 4 and 8 digit
\* forms with an alpha channel, which are not drawn); ok = FALSE stands for
\* the ValueError of an unparsable string.
ColorParse(hex) ==
  IF Len(hex) = 7 /\ hex[1] = "#" /\ \A k \in 2..7 : IsHexDigit(hex[k])
    THEN [ok |-> TRUE,
          rgb |-> <<16 * HexVal(hex[2]) + HexVal(hex[3]),
                    16 * HexVal(hex[4]) + HexVal(hex[5]),
                    16 * HexVal(hex[6]) + HexVal(hex[7])>>]
  ELSE IF Len(hex) = 4 /\ hex[1] = "#" /\ \A k \in 2..4 : IsHexDigit(hex[k])
    THEN [ok |-> TRUE,
          rgb |-> <<17 * HexVal(hex[2]), 17 * HexVal(hex[3]), 17 * HexVal(hex[4])>>]
    ELSE [ok |-> FALSE, rgb |-> <<>>]

IsGrey(rgb) == rgb[1] = rgb[2] /\ rgb[2] = rgb[3]

\* OKLCH lightness of the grey <<v, v, v>>, entry v + 1.
GreyLightness ==
  <<
     0, 67205, 84673, 96926, 106681, 114918, 122119, 128558,
     134409, 139791, 144788, 149577, 154340, 159066, 163758, 168416,
     173042, 177638, 182204, 186741, 191251, 195735, 200193, 204627,
     209036, 213423, 217787, 222129, 226450, 230750, 235031, 239292,
     243535, 247759, 251965, 256153, 260325, 264480, 268618, 272741,
     276848, 280940, 285017, 289080, 293128, 297163, 301184, 305191,
     309186, 313167, 317136, 321093, 325037, 328969, 332890, 336799,
     340697, 344584, 348460, 352325, 356179, 360023, 363857, 367681,
     371495, 375299, 379094, 382879, 386654, 390421, 394178, 397927,
     401667, 405398, 409120, 412834, 416540, 420237, 423926, 427608,
     431281, 434947, 438605, 442255, 445898, 449533, 453161, 456782,
     460396, 464002, 467602, 471194, 474780, 478359, 481931, 485497,
     489056, 492609, 496156, 499696, 503229, 506757, 510278, 513794,
     517303, 520807, 524304, 527796, 531282, 534762, 538237, 541706,
     545169, 548627, 552080, 555527, 558969, 562405, 565836, 569262,
     572683, 576099, 579510, 582916, 586316, 589712, 593103, 596489,
     599871, 603247, 606619, 609986, 613349, 616707, 620060, 623409,
     626754, 630093, 633429, 636760, 640087, 643409, 646727, 650041,
     653351, 656656, 659958, 663255, 666548, 669837, 673122, 676403,
     679680, 682953, 686223, 689488, 692749, 696007, 699261, 702511,
     705757, 709000, 712238, 715474, 718705, 721933, 725157, 728378,
     731595, 734809, 738019, 741225, 744428, 747628, 750824, 754017,
     757207, 760393, 763576, 766755, 769931, 773104, 776274, 779440,
     782604, 785764, 788921, 792074, 795225, 798372, 801517, 804658,
     807796, 810931, 814064, 817193, 820319, 823442, 826562, 829679,
     832794, 835905, 839014, 842119, 845222, 848322, 851419, 854514,
     857605, 860694, 863780, 866863, 869944, 873021, 876096, 879169,
     882238, 885305, 888370, 891431, 894490, 897547, 900601, 903652,
     906701, 909747, 912790, 915831, 918870, 921906, 924940, 927971,
     930999, 934025, 937049, 940070, 943089, 946105, 949119, 952131,
     955140, 958147, 961151, 964153, 967153, 970151, 973146, 976139,
     979129, 982118, 985104, 988087, 991069, 994048, 997025, 1000000
  >>

\* Entry v (1..255): the least lightness that converts back to a grey of
\* at least v after rounding to 8 bits.
GreyBoundary ==
  <<
     53341, 76931, 91211, 102037, 110953, 118628, 125421, 131549,
     137154, 142334, 147182, 151964, 156708, 161417, 166092, 170734,
     175344, 179925, 184476, 189000, 193497, 197968, 202413, 206835,
     211233, 215608, 219961, 224292, 228603, 232894, 237165, 241416,
     245649, 249864, 254062, 258242, 262405, 266551, 270682, 274797,
     278897, 282981, 287051, 291107, 295148, 299176, 303190, 307191,
     311178, 315154, 319116, 323067, 327005, 330932, 334847, 338750,
     342642, 346524, 350394, 354254, 358103, 361942, 365771, 369590,
     373399, 377198, 380988, 384768, 388539, 392301, 396054, 399798,
     403534, 407260, 410979, 414688, 418390, 422083, 425769, 429446,
     433116, 436777, 440431, 444078, 447717, 451349, 454973, 458590,
     462200, 465803, 469399, 472989, 476571, 480147, 483716, 487278,
     490834, 494384, 497927, 501464, 504994, 508519, 512037, 515550,
     519056, 522557, 526051, 529540, 533023, 536501, 539972, 543439,
     546899, 550355, 553804, 557249, 560688, 564122, 567551, 570974,
     574392, 577806, 581214, 584617, 588016, 591409, 594797, 598181,
     601560, 604934, 608304, 611669, 615029, 618385, 621736, 625082,
     628425, 631762, 635096, 638424, 641749, 645069, 648385, 651697,
     655005, 658308, 661607, 664903, 668194, 671481, 674764, 678043,
     681318, 684589, 687856, 691120, 694379, 697635, 700887, 704135,
     707379, 710620, 713857, 717090, 720320, 723546, 726768, 729987,
     733203, 736415, 739623, 742828, 746029, 749227, 752422, 755613,
     758801, 761985, 765166, 768344, 771519, 774690, 777858, 781023,
     784185, 787343, 790498, 793651, 796800, 799945, 803088, 806228,
     809365, 812498, 815629, 818757, 821881, 825003, 828122, 831238,
     834350, 837460, 840567, 843672, 846773, 849872, 852967, 856060,
     859150, 862238, 865322, 868404, 871483, 874560, 877633, 880704,
     883773, 886838, 889901, 892962, 896019, 899075, 902127, 905177,
     908225, 911269, 914312, 917352, 920389, 923424, 926456, 929486,
     932513, 935538, 938560, 941580, 944598, 947613, 950626, 953636,
     956644, 959650, 962653, 965654, 968653, 971649, 974643, 977635,
     980624, 983611, 986596, 989579, 992559, 995537, 998513
  >>

Blue01 == <<0, 0, 1>>

\* color.convert("oklch")
ConvertOklch(rgb) ==
  [lightness |-> IF IsGrey(rgb) THEN GreyLightness[rgb[1] + 1]
                 ELSE CASE rgb = Blue01 -> 30377,
   source |-> rgb]

\* color.convert("srgb"), gamut-fitted and rounded to 8 bits per channel.
ConvertSrgb(c) ==
  IF IsGrey(c.source)
    THEN LET v == Cardinality({k \in 1..255 : GreyBoundary[k] <= c.lightness})
         IN  <<v, v, v>>
  ELSE IF c.lightness = 0 THEN <<0, 0, 0>>
  ELSE CASE c.source = Blue01 /\ c.lightness = 30377 -> Blue01
         [] c.source = Blue01 /\ c.lightness = 180377 -> <<13, 18, 27>>

HexByte(v) == <<HexDigitChars[(v \div 16) + 1], HexDigitChars[(v % 16) + 1]>>

\* to_string(hex=True): '#rrggbb' in lower case.
ToHexString(rgb) == <<"#">> \o HexByte(rgb[1]) \o HexByte(rgb[2]) \o HexByte(rgb[3])

\* The fixed lightness delta 0.15 of the four probes.
LightnessDelta == (15 * LightScale) \div 100

\* clone(); ["lightness"] = max(0, lightness - 0.15)
Darker(c) == [c EXCEPT !.lightness = Max(0, c.lightness - LightnessDelta)]

\* clone(); ["lightness"] = min(1, lightness + 0.15)
Lighter(c) == [c EXCEPT !.lightness = Min(LightScale, c.lightness + LightnessDelta)]

(***************************************************************************)
(* The remediation search.                                                 *)
(***************************************************************************)
\* One probe: the adjusted color as a hex string and the recomputed ratio.
Probe(type, new_fg, new_bg, lightness) ==
  [type |-> type,
   lightness |-> lightness,
   preview_hex_fg |-> new_fg,
   preview_hex_bg |-> new_bg,
   new_ratio |-> calculate_contrast_ratio(new_fg, new_bg)]

\* Variant of FourProbes: the two foreground probes are computed against,
\* and report, the background left in new_bg_hex by the lighten_bg probe.
FourProbesStaleBackground(fg_hex, bg_hex) ==
  LET fg_oklch == ConvertOklch(ColorParse(fg_hex).rgb)
      bg_oklch == ConvertOklch(ColorParse(bg_hex).rgb)
      bg_darker == Darker(bg_oklch)
      bg_lighter == Lighter(bg_oklch)
      fg_darker == Darker(fg_oklch)
      fg_lighter == Lighter(fg_oklch)
      new_bg_hex == ToHexString(ConvertSrgb(bg_lighter))
  IN  <<Probe("darken_bg", fg_hex, ToHexString(ConvertSrgb(bg_darker)),
              bg_darker.lightness),
        Probe("lighten_bg", fg_hex, new_bg_hex, bg_lighter.lightness),
        Probe("darken_fg", ToHexString(ConvertSrgb(fg_darker)), new_bg_hex,
              fg_darker.lightness),
        Probe("lighten_fg", ToHexString(ConvertSrgb(fg_lighter)), new_bg_hex,
              fg_lighter.lightness)>>

\* The four probes in the order of the code: darken_bg, lighten_bg,
\* darken_fg, lighten_fg.
FourProbes(fg_hex, bg_hex) ==
  LET fg_oklch == ConvertOklch(ColorParse(fg_hex).rgb)
      bg_oklch == ConvertOklch(ColorParse(bg_hex).rgb)
      bg_darker == Darker(bg_oklch)
      bg_lighter == Lighter(bg_oklch)
      fg_darker == Darker(fg_oklch)
      fg_lighter == Lighter(fg_oklch)
  IN  <<Probe("darken_bg", fg_hex, ToHexString(ConvertSrgb(bg_darker)),
              bg_darker.lightness),
        Probe("lighten_bg", fg_hex, ToHexString(ConvertSrgb(bg_lighter)),
              bg_lighter.lightness),
        Probe("darken_fg", ToHexString(ConvertSrgb(fg_darker)), bg_hex,
              fg_darker.lightness),
        Probe("lighten_fg", ToHexString(ConvertSrgb(fg_lighter)), bg_hex,
              fg_lighter.lightness)>>

\* Variant of Improves: a candidate with an equal ratio is kept too.
ImprovesOrEqual(p, current_ratio) == p.new_ratio.value >= current_ratio

\* if new_ratio > current_ratio: the candidate is kept.
Improves(p, current_ratio) == p.new_ratio.value > current_ratio

\* suggestions.append({...}): the ratio is stored rounded to two decimals.
Suggestion(p) ==
  [type |-> p.type,
   new_contrast_ratio |-> Round2(p.new_ratio.value),
   preview_hex_fg |-> p.preview_hex_fg,
   preview_hex_bg |-> p.preview_hex_bg]

RECURSIVE Survivors(_, _)
Survivors(ps, current_ratio) ==
  IF ps = <<>> THEN <<>>
  ELSE (IF Improves(Head(ps), current_ratio)
          THEN <<Suggestion(Head(ps))>> ELSE <<>>)
       \o Survivors(Tail(ps), current_ratio)

\* The sort key: lambda x: x["new_contrast_ratio"].
SortKey(s) == s.new_contrast_ratio

\* x goes behind every element whose key is at least its own: list.sort is
\* stable, also with reverse=True.
RECURSIVE InsertDesc(_, _)
InsertDesc(x, sorted) ==
  IF sorted = <<>> THEN <<x>>
  ELSE IF SortKey(Head(sorted)) >= SortKey(x)
    THEN <<Head(sorted)>> \o InsertDesc(x, Tail(sorted))
    ELSE <<x>> \o sorted

\* suggestions.sort(key=..., reverse=True)
RECURSIVE SortDesc(_)
SortDesc(s) ==
  IF s = <<>> THEN <<>>
  ELSE InsertDesc(s[Len(s)], SortDesc(SubSeq(s, 1, Len(s) - 1)))

\* suggestions[:2]
TopTwo(s) == SubSeq(s, 1, Min(2, Len(s)))

\* Variant of AlreadyPasses: the gate uses the AAA threshold 7.0.
AlreadyPassesAAA(current_ratio) == current_ratio >= AAA_NORMAL

\* if current_ratio >= 4.5: return suggestions
AlreadyPasses(current_ratio) == current_ratio >= AA_NORMAL

\* The first probe whose recomputation raises, 0 when none does.
FirstFailure(ps) ==
  IF \E k \in 1..Len(ps) : ~ps[k].new_ratio.ok
    THEN CHOOSE k \in 1..Len(ps) :
           /\ ~ps[k].new_ratio.ok
           /\ \A j \in 1..(k - 1) : ps[j].new_ratio.ok
    ELSE 0

\* The body of the try statement.  raised tells whether an exception left
\* it; suggestions is the local list at that moment (the candidates the
\* earlier probes appended) or the value of the return statement; probes
\* are the probes computed on the way, the raising one included.
TryBody(fg_hex, bg_hex, current_ratio) ==
  IF ~ColorParse(fg_hex).ok \/ ~ColorParse(bg_hex).ok
    THEN [raised |-> TRUE, suggestions |-> <<>>, probes |-> <<>>]
  ELSE LET ps == FourProbes(fg_hex, bg_hex)
           f == FirstFailure(ps)
       IN  IF f > 0
             THEN [raised |-> TRUE,
                   suggestions |-> Survivors(SubSeq(ps, 1, f - 1), current_ratio),
                   probes |-> SubSeq(ps, 1, f)]
             ELSE [raised |-> FALSE,
                   suggestions |-> TopTwo(SortDesc(Survivors(ps, current_ratio))),
                   probes |-> ps]

\* Variant of ExceptClause: the handler returns the list gathered so far.
ExceptKeepsAccepted(t) == [t EXCEPT !.raised = FALSE]

\* except Exception: return []
ExceptClause(t) ==
  IF t.raised
    THEN [raised |-> FALSE, suggestions |-> <<>>, probes |-> t.probes]
    ELSE t

\* generate_oklch_suggestions: whether an exception leaves the function,
\* the suggestions returned and the probes computed on the way.
generate_oklch_suggestions(fg_hex, bg_hex, current_ratio) ==
  IF AlreadyPasses(current_ratio)
    THEN [raised |-> FALSE, suggestions |-> <<>>, probes |-> <<>>]
    ELSE ExceptClause(TryBody(fg_hex, bg_hex, current_ratio))

(***************************************************************************)
(* The strings drawn as inputs.                                            *)
(***************************************************************************)
Hex333333 == <<"#", "3", "3", "3", "3", "3", "3">>
HexFFFFFF == <<"#", "F", "F", "F", "F", "F", "F">>
Hex0066CC == <<"#", "0", "0", "6", "6", "C", "C">>
HexF5F5F5 == <<"#", "F", "5", "F", "5", "F", "5">>
Hex000001 == <<"#", "0", "0", "0", "0", "0", "1">>
Hex020202 == <<"#", "0", "2", "0", "2", "0", "2">>
Hex121212 == <<"#", "1", "2", "1", "2", "1", "2">>
Hex070707 == <<"#", "0", "7", "0", "7", "0", "7">>
Hex777777 == <<"#", "7", "7", "7", "7", "7", "7">>
Hexffffff == <<"#", "f", "f", "f", "f", "f", "f">>
Hex808080 == <<"#", "8", "0", "8", "0", "8", "0">>
Hex767676 == <<"#", "7", "6", "7", "6", "7", "6">>
Hex000000 == <<"#", "0", "0", "0", "0", "0", "0">>
Bare333333 == <<"3", "3", "3", "3", "3", "3">>
NotAColor == <<"n", "o", "t", "-", "a", "-", "c", "o", "l", "o", "r">>
FiveDigits == <<"#", "3", "3", "3", "3", "3">>
SevenDigits == <<"#", "3", "3", "3", "3", "3", "3", "3">>
TwoHashes == <<"#", "#", "3", "3", "3", "3", "3", "3">>
ThreeDigits == <<"#", "f", "f", "f">>
FourDigits == <<"#", "3", "3", "3", "3">>
SignedDigits == <<"#", "-", "f", "-", "f", "-", "f">>
NonHexDigit == <<"#", "3", "3", "3", "3", "3", "g">>
EmptyString == <<>>

\* Strings that match the input contract ^#?[0-9A-Fa-f]{6}$.
ValidColors ==
  {Hex333333, HexFFFFFF, Hex0066CC, HexF5F5F5, Hex000001, Hex020202, Hex121212,
   Hex070707, Hex777777, Hexffffff, Hex808080, Hex767676, Hex000000, Bare333333}

\* Strings that do not match it.
MalformedColors ==
  {NotAColor, FiveDigits, SevenDigits, TwoHashes, ThreeDigits, FourDigits,
   SignedDigits, NonHexDigit, EmptyString}

HexStrings == ValidColors \cup MalformedColors

\* The input contract of a color string: an optional '#', then exactly 6
\* hex digits.
WellFormed(s) ==
  LET h == IF Len(s) > 0 /\ Head(s) = "#" THEN Tail(s) ELSE s
  IN  Len(h) = 6 /\ \A k \in 1..6 : IsHexDigit(h[k])

\* The (foreground, background) pairs of the batches.
SamplePairs ==
  {<<Hex333333, HexFFFFFF>>, <<Hex767676, Hexffffff>>, <<Hex333333, Hex000001>>,
   <<Hex020202, Hex121212>>, <<Hex070707, Hex777777>>, <<Hex777777, Hexffffff>>,
   <<Hex808080, Hex808080>>, <<Bare333333, Hex000001>>, <<FiveDigits, HexFFFFFF>>,
   <<NotAColor, HexFFFFFF>>, <<Hex333333, ThreeDigits>>}

Elements == {"Title", "Link"}

ColorPairs ==
  {[foreground |-> p[1], background |-> p[2], element |-> e] :
     p \in SamplePairs, e \in Elements}

Batches == UNION {[1..n -> ColorPairs] : n \in 0..MaxPairs}

\* The ratios evaluate_wcag is applied to: every half unit up to
\* MaxHalfRatio / 2 and its two neighbours one unit of 1/RatioScale away.
EvalRatios ==
  {k * (RatioScale \div 2) + d : k \in 0..MaxHalfRatio, d \in {-1, 0, 1}}

\* The colors and current ratios generate_oklch_suggestions is applied to.
SuggestColors ==
  {Hex333333, Hex000001, Hex808080, Hexffffff, ThreeDigits, Bare333333}

SuggestRatios == {RatioScale, AA_LARGE, AA_NORMAL, AAA_NORMAL}

(***************************************************************************)
(* check_color_accessibility and the tools/call branch of mcp_endpoint.    *)
(***************************************************************************)
\* The tool of the server, params.get("name") of a request that names
\* another tool, and None, which params.get returns for a missing key.
CheckTool == "check_color_accessibility"

OtherTool == "get_palette"

NoName == "None"

\* A JSONRPCRequest: its method, whether params is a dict or None, the
\* value of params.get("name"), whether arguments has the key
\* "color_pairs", and its id: <<>> for None, <<n>> for the integer n.
Request(method, has_params, name, has_color_pairs, id) ==
  [method |-> method, has_params |-> has_params, name |-> name,
   has_color_pairs |-> has_color_pairs, id |-> id]

\* The request of the batch specification: a well-formed tools/call of the
\* tool.
ColorCheckCall == Request("tools/call", TRUE, CheckTool, TRUE, <<1>>)

\* No request: the pure functions are applied outside the handler.
NoRequest == Request("none", FALSE, NoName, FALSE, <<>>)

NoResponse ==
  [kind |-> "none", id |-> <<>>, code |-> 0, total_pairs |-> 0, passed_pairs |-> 0,
   failed_pairs |-> 0, color_pairs |-> <<>>]

\* results.append({...})
ResultItem(pair, r, wcag_results, suggestions) ==
  [text_sample |-> pair.element,
   foreground |-> pair.foreground,
   background |-> pair.background,
   ratio |-> Round2(r),
   passes_aa_normal |-> wcag_results.passes_aa_normal,
   passes_aa_large |-> wcag_results.passes_aa_large,
   passes_aaa_normal |-> wcag_results.passes_aaa_normal,
   passes_aaa_large |-> wcag_results.passes_aaa_large,
   suggestions |-> suggestions]

\* Variant of PutResult: the item is inserted in front.
PutResultFirst(rs, item) == <<item>> \o rs

\* results.append(item)
PutResult(rs, item) == Append(rs, item)

\* if wcag_results["passes_aa_normal"]: passed_count += 1
NextPassed(wcag_results, count) ==
  IF wcag_results.passes_aa_normal THEN count + 1 ELSE count

\* Variant of NextFailed: the failure counter is advanced for every pair.
NextFailedAlways(wcag_results, count) == count + 1

\* else: failed_count += 1
NextFailed(wcag_results, count) ==
  IF wcag_results.passes_aa_normal THEN count ELSE count + 1

\* The summary check_color_accessibility returns, as the result of the
\* JSON-RPC response.
ResultResponse ==
  [kind |-> "result", id |-> request.id, code |-> 0, total_pairs |-> Len(color_pairs),
   passed_pairs |-> passed_count, failed_pairs |-> failed_count,
   color_pairs |-> results]

\* except Exception: the error response of the whole call.
ErrorResponse ==
  [kind |-> "error", id |-> request.id, code |-> -32603, total_pairs |-> 0,
   passed_pairs |-> 0, failed_pairs |-> 0, color_pairs |-> <<>>]

Init ==
  /\ request = ColorCheckCall
  /\ color_pairs \in Batches
  /\ pc = "call"
  /\ results = <<>>
  /\ passed_count = 0
  /\ failed_count = 0
  /\ ratio = 0
  /\ probes = <<>>
  /\ response = NoResponse
  /\ fn = "none"
  /\ args = <<>>
  /\ ret = <<>>

\* check_color_accessibility(arguments["color_pairs"]): the function is
\* entered.
ToolsCall ==
  /\ pc = "call"
  /\ pc' = "loop"
  /\ results' = <<>>
  /\ passed_count' = 0
  /\ failed_count' = 0
  /\ UNCHANGED <<request, color_pairs, ratio, probes, response, fn, args, ret>>

\* One iteration of "for pair in color_pairs".  A ValueError of
\* calculate_contrast_ratio leaves the loop and the function.
CheckPair ==
  /\ pc = "loop"
  /\ Len(results) < Len(color_pairs)
  /\ LET pair == color_pairs[Len(results) + 1]
         r == calculate_contrast_ratio(pair.foreground, pair.background)
         wcag_results == evaluate_wcag(r.value)
         g == generate_oklch_suggestions(pair.foreground, pair.background, r.value)
     IN  \/ /\ ~r.ok
            /\ pc' = "raised"
            /\ UNCHANGED <<results, passed_count, failed_count, ratio, probes>>
         \/ /\ r.ok
            /\ ratio' = r.value
            /\ probes' = g.probes
            /\ passed_count' = NextPassed(wcag_results, passed_count)
            /\ failed_count' = NextFailed(wcag_results, failed_count)
            /\ results' =
                 PutResult(results, ResultItem(pair, r.value, wcag_results, g.suggestions))
            /\ pc' = "loop"
  /\ UNCHANGED <<request, color_pairs, response, fn, args, ret>>

\* The loop is over: the summary is returned and sent as the result.
ReturnResult ==
  /\ pc = "loop"
  /\ Len(results) = Len(color_pairs)
  /\ response' = ResultResponse
  /\ pc' = "done"
  /\ UNCHANGED <<request, color_pairs, results, passed_count, failed_count, ratio,
                 probes, fn, args, ret>>

\* The exception reaches the except clause of mcp_endpoint.
ReturnError ==
  /\ pc = "raised"
  /\ response' = ErrorResponse
  /\ pc' = "done"
  /\ UNCHANGED <<request, color_pairs, results, passed_count, failed_count, ratio,
                 probes, fn, args, ret>>

Next == ToolsCall \/ CheckPair \/ ReturnResult \/ ReturnError

Spec == Init /\ [][Next]_vars

(***************************************************************************)
(* mcp_endpoint: the dispatch on the method of the request.                *)
(***************************************************************************)
Methods == {"initialize", "tools/list", "tools/call", "ping", "resources/list"}

KnownMethods == {"initialize", "tools/list", "tools/call", "ping"}

RequestIds == {<<>>, <<1>>}

\* The requests drawn: every method, with params absent, or present with
\* or without a tool name and with or without arguments["color_pairs"].
Requests ==
  {Request(m, FALSE, NoName, FALSE, i) : m \in Methods, i \in RequestIds}
  \cup {Request(m, TRUE, n, c, i) :
          m \in Methods, n \in {CheckTool, OtherTool, NoName},
          c \in BOOLEAN, i \in RequestIds}

\* The pairs of the batches sent through the handler: one that passes AA,
\* one that fails it and one whose foreground is malformed.
McpPairs ==
  {[foreground |-> Hex333333, background |-> HexFFFFFF, element |-> "Title"],
   [foreground |-> Hex333333, background |-> Hex000001, element |-> "Title"],
   [foreground |-> NotAColor, background |-> HexFFFFFF, element |-> "Title"]}

McpBatches == UNION {[1..n -> McpPairs] : n \in 0..MaxPairs}

\* The result of initialize, tools/list and ping, none of which counts
\* pairs.
StaticResult ==
  [kind |-> "result", id |-> request.id, code |-> 0, total_pairs |-> 0,
   passed_pairs |-> 0, failed_pairs |-> 0, color_pairs |-> <<>>]

\* "Method not found" and "Tool not found".
NotFoundResponse ==
  [kind |-> "error", id |-> request.id, code |-> -32601, total_pairs |-> 0,
   passed_pairs |-> 0, failed_pairs |-> 0, color_pairs |-> <<>>]

McpInit ==
  /\ request \in Requests
  /\ color_pairs \in
       (IF request.method = "tools/call" /\ request.name = CheckTool
           /\ request.has_color_pairs
          THEN McpBatches ELSE {<<>>})
  /\ pc = "request"
  /\ results = <<>>
  /\ passed_count = 0
  /\ failed_count = 0
  /\ ratio = 0
  /\ probes = <<>>
  /\ response = NoResponse
  /\ fn = "none"
  /\ args = <<>>
  /\ ret = <<>>

HandlerFrame ==
  UNCHANGED <<request, color_pairs, results, passed_count, failed_count, ratio,
              probes, fn, args, ret>>

\* if request.method == "initialize"
HandleInitialize ==
  /\ pc = "request"
  /\ request.method = "initialize"
  /\ response' = StaticResult
  /\ pc' = "done"
  /\ HandlerFrame

\* elif request.method == "tools/list"
HandleToolsList ==
  /\ pc = "request"
  /\ request.method = "tools/list"
  /\ response' = StaticResult
  /\ pc' = "done"
  /\ HandlerFrame

\* elif request.method == "tools/call".  request.params.get is evaluated
\* before the try statement: with params None it raises AttributeError
\* and the exception leaves the handler.  arguments["color_pairs"] is
\* evaluated inside the try statement: its KeyError reaches the except
\* clause.
HandleToolsCall ==
  /\ pc = "request"
  /\ request.method = "tools/call"
  /\ \/ /\ ~request.has_params
        /\ pc' = "escaped"
        /\ UNCHANGED response
     \/ /\ request.has_params
        /\ request.name # CheckTool
        /\ response' = NotFoundResponse
        /\ pc' = "done"
     \/ /\ request.has_params
        /\ request.name = CheckTool
        /\ ~request.has_color_pairs
        /\ pc' = "raised"
        /\ UNCHANGED response
     \/ /\ request.has_params
        /\ request.name = CheckTool
        /\ request.has_color_pairs
        /\ pc' = "call"
        /\ UNCHANGED response
  /\ HandlerFrame

\* elif request.method == "ping"
HandlePing ==
  /\ pc = "request"
  /\ request.method = "ping"
  /\ response' = StaticResult
  /\ pc' = "done"
  /\ HandlerFrame

\* else: the method is unknown.
HandleUnknownMethod ==
  /\ pc = "request"
  /\ request.method \notin KnownMethods
  /\ response' = NotFoundResponse
  /\ pc' = "done"
  /\ HandlerFrame

McpNext ==
  \/ HandleInitialize
  \/ HandleToolsList
  \/ HandleToolsCall
  \/ HandlePing
  \/ HandleUnknownMethod
  \/ ToolsCall
  \/ CheckPair
  \/ ReturnResult
  \/ ReturnError

McpSpec == McpInit /\ [][McpNext]_vars

(***************************************************************************)
(* The pure functions applied to inputs drawn from bounded sets.           *)
(***************************************************************************)
PureInit ==
  /\ request = NoRequest
  /\ color_pairs = <<>>
  /\ pc = "pure"
  /\ results = <<>>
  /\ passed_count = 0
  /\ failed_count = 0
  /\ ratio = 0
  /\ probes = <<>>
  /\ response = NoResponse
  /\ fn = "none"
  /\ args = <<>>
  /\ ret = <<>>

PureFrame ==
  UNCHANGED <<request, color_pairs, pc, results, passed_count, failed_count, ratio,
              probes, response>>

ApplyHexToRgb ==
  /\ \E s \in HexStrings :
       /\ fn' = "hex_to_rgb"
       /\ args' = <<s>>
       /\ ret' = hex_to_rgb(s)
  /\ PureFrame

ApplyContrastRatio ==
  /\ \E a \in ValidColors, b \in ValidColors :
       /\ fn' = "calculate_contrast_ratio"
       /\ args' = <<a, b>>
       /\ ret' = calculate_contrast_ratio(a, b)
  /\ PureFrame

ApplyEvaluateWcag ==
  /\ \E r \in EvalRatios :
       /\ fn' = "evaluate_wcag"
       /\ args' = <<r>>
       /\ ret' = evaluate_wcag(r)
  /\ PureFrame

ApplyGenerateSuggestions ==
  /\ \E a \in SuggestColors, b \in SuggestColors, r \in SuggestRatios :
       /\ fn' = "generate_oklch_suggestions"
       /\ args' = <<a, b, r>>
       /\ ret' = generate_oklch_suggestions(a, b, r)
  /\ PureFrame

PureNext ==
  ApplyHexToRgb \/ ApplyContrastRatio \/ ApplyEvaluateWcag \/ ApplyGenerateSuggestions

PureSpec == PureInit /\ [][PureNext]_vars

(***************************************************************************)
(* Properties.                                                             *)
(***************************************************************************)
\* The item of the pair processed last, and the ratio recomputed from the
\* two colors a record reports.
LastItem == results[Len(results)]

RatioOf(fg, bg) == calculate_contrast_ratio(fg, bg).value

Hundredths(x) == x * (RatioScale \div 100)

ValidPair(pair) == WellFormed(pair.foreground) /\ WellFormed(pair.background)

Reports(item, pair) ==
  /\ item.foreground = pair.foreground
  /\ item.background = pair.background
  /\ item.text_sample = pair.element

\* C1: when the call has been answered, every pair of the batch whose two
\* colors are well-formed is reported by an item of the answer, whether or
\* not another pair of the batch is malformed.
C1_MalformedPairDoesNotAbortBatch ==
  pc = "done" =>
    \A k \in 1..Len(color_pairs) :
      ValidPair(color_pairs[k]) =>
        \E j \in 1..Len(response.color_pairs) :
          Reports(response.color_pairs[j], color_pairs[k])

\* C2: hex_to_rgb raises for every string that is not an optional '#'
\* followed by exactly 6 hex digits.
C2_HexToRgbRejectsMalformed ==
  (fn = "hex_to_rgb" /\ ~WellFormed(args[1])) => ~ret.ok

\* C3 as stated: the new_contrast_ratio field of every suggestion of the
\* pair processed last is strictly greater than the pair's ratio.
C3_FieldExceedsCurrentRatio ==
  results # <<>> =>
    \A k \in 1..Len(LastItem.suggestions) :
      Hundredths(LastItem.suggestions[k].new_contrast_ratio) > ratio

\* C3 as amended: the ratio recomputed from the two preview colors of every
\* suggestion is strictly greater than the pair's ratio, and the
\* new_contrast_ratio field is that ratio rounded to two decimals, which is
\* never below the pair's ratio rounded to two decimals.
C3_SuggestionImprovesUnrounded ==
  results # <<>> =>
    \A k \in 1..Len(LastItem.suggestions) :
      LET s == LastItem.suggestions[k]
      IN  /\ RatioOf(s.preview_hex_fg, s.preview_hex_bg) > ratio
          /\ s.new_contrast_ratio = Round2(RatioOf(s.preview_hex_fg, s.preview_hex_bg))
          /\ s.new_contrast_ratio >= Round2(ratio)

\* C3 witness: a suggestion was returned whose rounded field is not above
\* the pair's ratio.
C3_Witness ==
  /\ results # <<>>
  /\ \E k \in 1..Len(LastItem.suggestions) :
       Hundredths(LastItem.suggestions[k].new_contrast_ratio) <= ratio

\* The probes of the last pair that improve on its ratio, and those of them
\* that were not returned.
SurvivingProbes == {k \in 1..Len(probes) : probes[k].new_ratio.value > ratio}

Returned(k) ==
  \E j \in 1..Len(LastItem.suggestions) : LastItem.suggestions[j].type = probes[k].type

LeftOut == {k \in SurvivingProbes : ~Returned(k)}

ProbeIndex(type) == CHOOSE k \in 1..Len(probes) : probes[k].type = type

\* C4: at most 2 suggestions, in descending order of ratio, and no
\* surviving candidate that was left out has a higher recomputed ratio than
\* a returned one.
C4_TopTwoByRecomputedRatio ==
  results # <<>> =>
    LET sg == LastItem.suggestions
    IN  /\ Len(sg) <= 2
        /\ \A j \in 1..Len(sg) - 1 :
             sg[j].new_contrast_ratio >= sg[j + 1].new_contrast_ratio
        /\ \A k \in LeftOut : \A j \in 1..Len(sg) :
             probes[k].new_ratio.value <= RatioOf(sg[j].preview_hex_fg, sg[j].preview_hex_bg)

\* What the sort on the rounded field does guarantee: at most 2 suggestions
\* (2 when at least 2 candidates survive), in descending order of the
\* rounded ratio, and no surviving candidate that was left out has a higher
\* rounded ratio than a returned one; with equal rounded ratios the returned
\* one is the earlier probe.
TopTwoByRoundedRatio ==
  results # <<>> =>
    LET sg == LastItem.suggestions
    IN  /\ Len(sg) <= 2
        /\ (probes # <<>> => Len(sg) = Min(2, Cardinality(SurvivingProbes)))
        /\ \A j \in 1..Len(sg) - 1 :
             sg[j].new_contrast_ratio >= sg[j + 1].new_contrast_ratio
        /\ \A k \in LeftOut : \A j \in 1..Len(sg) :
             \/ Round2(probes[k].new_ratio.value) < sg[j].new_contrast_ratio
             \/ /\ Round2(probes[k].new_ratio.value) = sg[j].new_contrast_ratio
                /\ ProbeIndex(sg[j].type) < k

\* C4 witness: a surviving candidate was left out although its recomputed
\* ratio is higher than that of a returned suggestion.
C4_Witness ==
  /\ results # <<>>
  /\ \E k \in LeftOut : \E j \in 1..Len(LastItem.suggestions) :
       probes[k].new_ratio.value >
         RatioOf(LastItem.suggestions[j].preview_hex_fg,
                 LastItem.suggestions[j].preview_hex_bg)

\* C5 as stated: in every result item each flag is the threshold test of
\* the item's reported (rounded) ratio.
C5_FlagsOfReportedRatio ==
  \A k \in 1..Len(results) :
    /\ results[k].passes_aa_normal = (results[k].ratio >= 450)
    /\ results[k].passes_aa_large = (results[k].ratio >= 300)
    /\ results[k].passes_aaa_normal = (results[k].ratio >= 700)
    /\ results[k].passes_aaa_large = (results[k].ratio >= 450)

\* C5 as amended: in every result item each flag is the threshold test of
\* the unrounded ratio of the item's two colors, and the reported ratio is
\* that ratio rounded to two decimals.
C5_FlagsOfUnroundedRatio ==
  \A k \in 1..Len(results) :
    LET r == RatioOf(results[k].foreground, results[k].background)
    IN  /\ results[k].ratio = Round2(r)
        /\ results[k].passes_aa_normal = (2 * r >= 9 * RatioScale)
        /\ results[k].passes_aa_large = (r >= 3 * RatioScale)
        /\ results[k].passes_aaa_normal = (r >= 7 * RatioScale)
        /\ results[k].passes_aaa_large = (2 * r >= 9 * RatioScale)

\* C5 witness: an item reports the ratio 4.5 and fails AA normal.
C5_Witness ==
  \E k \in 1..Len(results) :
    results[k].ratio = 450 /\ ~results[k].passes_aa_normal

\* C6: evaluate_wcag returns aa_large = (ratio >= 3.0), aa_normal =
\* (ratio >= 4.5), aaa_large = (ratio >= 4.5), aaa_normal = (ratio >= 7.0),
\* the boundary values passing; so aaa_normal implies aa_normal, aa_normal
\* equals aaa_large and aa_normal implies aa_large.
C6_EvaluateThresholds ==
  fn = "evaluate_wcag" =>
    LET r == args[1]
    IN  /\ ret.passes_aa_large = (r >= 3 * RatioScale)
        /\ ret.passes_aa_normal = (2 * r >= 9 * RatioScale)
        /\ ret.passes_aaa_large = (2 * r >= 9 * RatioScale)
        /\ ret.passes_aaa_normal = (r >= 7 * RatioScale)
        /\ (ret.passes_aaa_normal => ret.passes_aa_normal)
        /\ ret.passes_aa_normal = ret.passes_aaa_large
        /\ (ret.passes_aa_normal => ret.passes_aa_large)

\* C6 witness: evaluate_wcag was applied to exactly 4.5.
C6_Witness ==
  /\ fn = "evaluate_wcag"
  /\ 2 * args[1] = 9 * RatioScale
  /\ ret.passes_aa_normal
  /\ ~ret.passes_aaa_normal

\* The number of items with the given value of passes_aa_normal.
CountAaNormal(items, flag) ==
  Cardinality({k \in 1..Len(items) : items[k].passes_aa_normal = flag})

\* C7: after every iteration the two counters count the items with
\* passes_aa_normal true and false and add up to the number of items, and
\* the summary of a batch has total_pairs = number of input pairs,
\* passed_pairs and failed_pairs the two counts, and passed_pairs +
\* failed_pairs = total_pairs.
C7_SummaryCounts ==
  /\ pc \in {"loop", "raised", "done"} =>
       /\ passed_count = CountAaNormal(results, TRUE)
       /\ failed_count = CountAaNormal(results, FALSE)
       /\ passed_count + failed_count = Len(results)
  /\ response.kind = "result" =>
       /\ response.total_pairs = Len(color_pairs)
       /\ response.passed_pairs = CountAaNormal(response.color_pairs, TRUE)
       /\ response.failed_pairs = CountAaNormal(response.color_pairs, FALSE)
       /\ response.passed_pairs + response.failed_pairs = response.total_pairs

\* C7 witness: a summary was returned that counts a passing and a failing
\* pair.
C7_Witness ==
  /\ response.kind = "result"
  /\ response.passed_pairs >= 1
  /\ response.failed_pairs >= 1

\* C8: the item at position i reports the foreground, background and label
\* of input pair i, and the returned sequence is as long as the input.
C8_OrderPreserved ==
  /\ Len(results) <= Len(color_pairs)
  /\ \A k \in 1..Len(results) : Reports(results[k], color_pairs[k])
  /\ response.kind = "result" =>
       /\ Len(response.color_pairs) = Len(color_pairs)
       /\ \A k \in 1..Len(color_pairs) : Reports(response.color_pairs[k], color_pairs[k])

\* C8 witness: a batch of two different pairs was answered.
C8_Witness ==
  /\ response.kind = "result"
  /\ Len(color_pairs) >= 2
  /\ color_pairs[1] # color_pairs[2]

\* C9: for valid colors A and B, calculate_contrast_ratio(A, B) equals
\* calculate_contrast_ratio(B, A), is never below 1.0, and is 1.0 when A
\* and B are the same color.
C9_ContrastSymmetric ==
  fn = "calculate_contrast_ratio" =>
    /\ ret.ok
    /\ ret = calculate_contrast_ratio(args[2], args[1])
    /\ ret.value >= RatioScale
    /\ (hex_to_rgb(args[1]).rgb = hex_to_rgb(args[2]).rgb => ret.value = RatioScale)

\* C9 witness: the ratio of two colors of different luminance was computed.
C9_Witness ==
  /\ fn = "calculate_contrast_ratio"
  /\ args[1] # args[2]
  /\ ret.value > RatioScale

\* C10: a pair whose ratio is at least 4.5 gets no suggestions and no
\* lightness probe is computed for it; suggestions appear only on items
\* that fail AA normal.
C10_NoSearchWhenPassing ==
  /\ \A k \in 1..Len(results) :
       (2 * RatioOf(results[k].foreground, results[k].background) >= 9 * RatioScale
          \/ results[k].passes_aa_normal)
         => results[k].suggestions = <<>>
  /\ (results # <<>> /\ 2 * ratio >= 9 * RatioScale) => probes = <<>>

\* C10 witness: a pair that passes AA normal but not AAA normal was
\* processed.
C10_Witness ==
  /\ results # <<>>
  /\ 2 * ratio >= 9 * RatioScale
  /\ ratio < 7 * RatioScale
  /\ LastItem.suggestions = <<>>

\* What a call of generate_oklch_suggestions met on its way: Color() raised
\* on one of the two strings, a ratio recomputation raised at a probe, or
\* every probe was computed and none exceeded the current ratio.
ConversionFailed == ~ColorParse(args[1]).ok \/ ~ColorParse(args[2]).ok

RecomputationFailed == \E k \in 1..Len(ret.probes) : ~ret.probes[k].new_ratio.ok

NoProbeImproves ==
  /\ Len(ret.probes) = 4
  /\ \A k \in 1..4 :
       ret.probes[k].new_ratio.ok /\ ret.probes[k].new_ratio.value <= args[3]

\* C11: no exception leaves generate_oklch_suggestions; when Color() or a
\* ratio recomputation at any of the four probes raised it returns the
\* empty sequence, whatever the earlier probes had accepted, and when no
\* probe improves the contrast it returns the empty sequence too.
C11_NeverRaises ==
  fn = "generate_oklch_suggestions" =>
    /\ ~ret.raised
    /\ ConversionFailed => ret.suggestions = <<>>
    /\ RecomputationFailed => ret.suggestions = <<>>
    /\ NoProbeImproves => ret.suggestions = <<>>

\* C11 witness: the third probe raised after the first one had been
\* accepted, and the call returned the empty sequence.
C11_Witness ==
  /\ fn = "generate_oklch_suggestions"
  /\ Len(ret.probes) = 3
  /\ ~ret.probes[3].new_ratio.ok
  /\ Improves(ret.probes[1], args[3])
  /\ ret.suggestions = <<>>
  /\ ~ret.raised

\* The color a hex string stands for, and the two families of suggestions.
ColorOf(hex) == hex_to_rgb(hex).rgb

BackgroundTypes == {"darken_bg", "lighten_bg"}

ForegroundTypes == {"darken_fg", "lighten_fg"}

\* C12: every item reports the foreground and the background of its input
\* pair unchanged, and every suggestion of it changes exactly one of the
\* two colors: a darken_bg or lighten_bg suggestion reports the input
\* foreground and another background, a darken_fg or lighten_fg suggestion
\* reports the input background and another foreground.
C12_OriginalPairKept ==
  \A k \in 1..Len(results) :
    /\ results[k].foreground = color_pairs[k].foreground
    /\ results[k].background = color_pairs[k].background
    /\ \A j \in 1..Len(results[k].suggestions) :
         LET s == results[k].suggestions[j]
         IN  \/ /\ s.type \in BackgroundTypes
                /\ s.preview_hex_fg = color_pairs[k].foreground
                /\ ColorOf(s.preview_hex_bg) # ColorOf(color_pairs[k].background)
             \/ /\ s.type \in ForegroundTypes
                /\ s.preview_hex_bg = color_pairs[k].background
                /\ ColorOf(s.preview_hex_fg) # ColorOf(color_pairs[k].foreground)

\* C12 witness: the call has been answered and an item carries a
\* suggestion that changes the background and one that changes the
\* foreground.
C12_Witness ==
  /\ pc = "done"
  /\ \E k \in 1..Len(results) :
       /\ \E j \in 1..Len(results[k].suggestions) :
            results[k].suggestions[j].type \in BackgroundTypes
       /\ \E j \in 1..Len(results[k].suggestions) :
            results[k].suggestions[j].type \in ForegroundTypes

\* What went wrong while a tools/call of the tool was processed: the
\* arguments lack "color_pairs", or check_color_accessibility raised.
ProcessingFailed ==
  /\ request.method = "tools/call"
  /\ request.has_params
  /\ request.name = CheckTool
  /\ ~request.has_color_pairs \/ Len(results) < Len(color_pairs)

\* The response of a handler that has returned, as the claim of C13
\* describes it.
ResponseAsDescribed ==
  /\ response.kind \in {"result", "error"}
  /\ response.id = request.id
  /\ request.method \notin KnownMethods =>
       response.kind = "error" /\ response.code = -32601
  /\ (request.method = "tools/call" /\ request.has_params
        /\ request.name # CheckTool) =>
       response.kind = "error" /\ response.code = -32601
  /\ ProcessingFailed => response.kind = "error" /\ response.code = -32603

\* C13: whatever the method of the request and whether or not params is
\* present, no exception leaves mcp_endpoint, and the response it returns
\* carries the id of the request and exactly one of result and error, with
\* code -32601 for an unknown method or tool and code -32603 for a failure
\* while a tools/call is processed.
C13_AlwaysJsonRpcResponse ==
  /\ pc # "escaped"
  /\ pc = "done" => ResponseAsDescribed

\* C13 witness: a tools/call without params has been handled.
C13_Witness ==
  /\ request.method = "tools/call"
  /\ ~request.has_params
  /\ pc \notin {"request"}

\* The handler answers as described whenever it returns; it does return
\* for every request but a tools/call without params.
ReturnsAsDescribed == pc = "done" => ResponseAsDescribed

====
